---- MODULE Spec2Model ----
(***************************************************************************)
(* Model of libvcs' git URL parser: the rule registry (url/base.py), the   *)
(* built-in rule sets and the three parser classes GitBaseURL, GitPipURL   *)
(* and GitURL (url/git.py): construction (__post_init__), is_valid and     *)
(* to_url.                                                                 *)
(*                                                                         *)
(* A Python str is a sequence of one-character strings.  An Optional[str]  *)
(* is None (the empty tuple) or Some(s) (the one-element tuple holding s), *)
(* so that the empty string and None stay different values.                *)
(***************************************************************************)
EXTENDS Integers, Sequences, FiniteSets, TLC

None == <<>>
Some(s) == <<s>>
Val(o) == o[1]

(***************************************************************************)
(* Characters                                                              *)
(***************************************************************************)
Lower ==
    {"a","b","c","d","e","f","g","h","i","j","k","l","m","n","o","p","q","r",
     "s","t","u","v","w","x","y","z"}
Upper == {"M","P","R","O","J"}
Digit == {"0","1","2","3","4","5","6","7","8","9"}
Punct == {":","/","@",".","+","-","_",","," "}
Alphabet == Lower \cup Upper \cup Digit \cup Punct

\* \w, \d and . of Python's re (str patterns, no flags but VERBOSE)
Word == Lower \cup Upper \cup Digit \cup {"_"}
AnyChar == Alphabet
Not(cs) == Alphabet \ cs

(***************************************************************************)
(* Regular expressions: the syntax tree of a pattern, and Python's         *)
(* backtracking matcher over it.  Greedy quantifiers try the longest       *)
(* repetition first, alternatives are tried left to right; the first       *)
(* complete match found in that order is the match, as in re.             *)
(***************************************************************************)
Lit(s) == [t |-> "lit", s |-> s]
Rep(cs, lo, hi) == [t |-> "set", c |-> cs, lo |-> lo, hi |-> hi, inf |-> FALSE]
Star(cs) == [t |-> "set", c |-> cs, lo |-> 0, hi |-> 0, inf |-> TRUE]
Plus(cs) == [t |-> "set", c |-> cs, lo |-> 1, hi |-> 0, inf |-> TRUE]
One(cs) == Rep(cs, 1, 1)
Cat(xs) == [t |-> "seq", xs |-> xs]
Alt(xs) == [t |-> "alt", xs |-> xs]
Opt(x) == [t |-> "opt", x |-> x]
Many1(x) == [t |-> "plus", x |-> x]
Grp(name, x) == [t |-> "grp", name |-> name, x |-> x]
Bol == [t |-> "bol"]
Eol == [t |-> "eol"]

GroupNames ==
    {"scheme", "user", "hostname", "port", "separator", "path", "suffix", "rev"}
NoGroups == [g \in GroupNames |-> None]

Min(a, b) == IF a < b THEN a ELSE b

\* does the literal l occur in s at position pos
LitAt(l, s, pos) ==
    /\ pos + Len(l) - 1 <= Len(s)
    /\ \A i \in 1..Len(l) : s[pos + i - 1] = l[i]

\* the number of consecutive characters of s from pos on that are in cs
RECURSIVE RunLen(_, _, _)
RunLen(cs, s, pos) ==
    IF pos <= Len(s) /\ s[pos] \in cs THEN 1 + RunLen(cs, s, pos + 1) ELSE 0

\* Run(todo, s, pos, caps): match the nodes of todo one after the other from
\* pos; <<>> when that fails, else <<[end, groups]>> of the first match found.
RECURSIVE Run(_, _, _, _)
RECURSIVE TryCount(_, _, _, _, _, _)
RECURSIVE TryAlt(_, _, _, _, _)

TryCount(k, lo, rest, s, pos, caps) ==
    IF k < lo THEN <<>>
    ELSE LET r == Run(rest, s, pos + k, caps)
         IN  IF r # <<>> THEN r ELSE TryCount(k - 1, lo, rest, s, pos, caps)

TryAlt(xs, rest, s, pos, caps) ==
    IF xs = <<>> THEN <<>>
    ELSE LET r == Run(<<Head(xs)>> \o rest, s, pos, caps)
         IN  IF r # <<>> THEN r ELSE TryAlt(Tail(xs), rest, s, pos, caps)

Run(todo, s, pos, caps) ==
    IF todo = <<>> THEN <<[end |-> pos, groups |-> caps]>>
    ELSE
      LET n == Head(todo)
          rest == Tail(todo)
      IN CASE n.t = "lit" ->
                IF LitAt(n.s, s, pos) THEN Run(rest, s, pos + Len(n.s), caps)
                ELSE <<>>
           [] n.t = "set" ->
                LET avail == RunLen(n.c, s, pos)
                    top == IF n.inf THEN avail ELSE Min(avail, n.hi)
                IN  TryCount(top, n.lo, rest, s, pos, caps)
           [] n.t = "seq" -> Run(n.xs \o rest, s, pos, caps)
           [] n.t = "alt" -> TryAlt(n.xs, rest, s, pos, caps)
           [] n.t = "opt" ->
                LET r == Run(<<n.x>> \o rest, s, pos, caps)
                IN  IF r # <<>> THEN r ELSE Run(rest, s, pos, caps)
           [] n.t = "plus" ->
                Run(<<n.x, [t |-> "star", x |-> n.x, from |-> pos]>> \o rest,
                    s, pos, caps)
           [] n.t = "star" ->
                LET r == IF pos > n.from
                         THEN Run(<<n.x, [n EXCEPT !.from = pos]>> \o rest,
                                  s, pos, caps)
                         ELSE <<>>
                IN  IF r # <<>> THEN r ELSE Run(rest, s, pos, caps)
           [] n.t = "grp" ->
                Run(<<n.x, [t |-> "cap", name |-> n.name, from |-> pos]>> \o rest,
                    s, pos, caps)
           [] n.t = "cap" ->
                Run(rest, s, pos,
                    [caps EXCEPT ![n.name] = Some(SubSeq(s, n.from, pos - 1))])
           [] n.t = "bol" -> IF pos = 1 THEN Run(rest, s, pos, caps) ELSE <<>>
           [] n.t = "eol" ->
                IF pos = Len(s) + 1 THEN Run(rest, s, pos, caps) ELSE <<>>

\* re.match(pattern, s): a match starting at the first character, or None
re_match(pattern, s) == Run(<<pattern>>, s, 1, NoGroups)

\* re.search(pattern, s) is not None: a match starting anywhere
re_search(pattern, s) ==
    \E start \in 1..(Len(s) + 1) : Run(<<pattern>>, s, start, NoGroups) # <<>>

(***************************************************************************)
(* Pattern fragments and the built-in rules                                *)
(***************************************************************************)
s_http == <<"h","t","t","p">>
s_https == <<"h","t","t","p","s">>
s_ssh == <<"s","s","h">>
s_git == <<"g","i","t">>
s_dotgit == <<".","g","i","t">>
s_css == <<":","/","/">>
s_github == <<"g","i","t","h","u","b">>
s_gitlab == <<"g","i","t","l","a","b">>
s_github_com == <<"g","i","t","h","u","b",".","c","o","m">>
s_gitlab_com == <<"g","i","t","l","a","b",".","c","o","m">>
s_git_ssh == <<"g","i","t","+","s","s","h">>
s_git_https == <<"g","i","t","+","h","t","t","p","s">>
s_git_http == <<"g","i","t","+","h","t","t","p">>
s_git_file == <<"g","i","t","+","f","i","l","e">>

RE_USER ==
    Opt(Cat(<<Grp("user", Plus(Not({"/", ":", "@"}))), Lit(<<"@">>)>>))

RE_SCP ==
    Cat(<<Grp("hostname", Plus(Not({"/", ":"}))),
          Grp("separator", Lit(<<":">>)),
          Grp("path", Cat(<<One(Word), Plus(Not({":", "."}))>>))>>)

RE_PIP_REV == Cat(<<Lit(<<"@">>), Grp("rev", Star(AnyChar))>>)

RE_PATH ==
    Cat(<<Grp("hostname", Plus(Not({"/", ":", "@"}))),
          Opt(Cat(<<Lit(<<":">>), Grp("port", Rep(Digit, 1, 5))>>)),
          Opt(Grp("separator", One({":", ",", "/"}))),
          Opt(Grp("path", Cat(<<One(Word), Star(Not({":", ".", "@"}))>>)))>>)

RE_SCHEME == Grp("scheme", Alt(<<Lit(s_http), Lit(s_https)>>))

RE_SUFFIX == Grp("suffix", Lit(s_dotgit))

RE_PIP_SCHEME ==
    Grp("scheme",
        Alt(<<Lit(s_git_ssh), Lit(s_git_https), Lit(s_git_http), Lit(s_git_file)>>))

RE_PIP_SCP_SCHEME == Grp("scheme", Alt(<<Lit(s_git_ssh), Lit(s_git_file)>>))

NoDefaults == [k \in {} |-> <<>>]

Rule(label, pattern, defaults, is_explicit, weight) ==
    [label |-> label, pattern |-> pattern, defaults |-> defaults,
     is_explicit |-> is_explicit, weight |-> weight]

DEFAULT_RULES ==
    << Rule("core-git-https",
            Cat(<<Bol, RE_SCHEME, Lit(s_css), RE_USER, RE_PATH, Opt(RE_SUFFIX)>>),
            NoDefaults, FALSE, 0),
       Rule("core-git-scp",
            Cat(<<Bol, Opt(Grp("scheme", Lit(s_ssh))), RE_USER, RE_SCP,
                  Opt(RE_SUFFIX)>>),
            [k \in {"username"} |-> s_git], FALSE, 0) >>

PIP_DEFAULT_RULES ==
    << Rule("pip-url",
            Cat(<<RE_PIP_SCHEME, Lit(s_css), RE_USER, RE_PATH, Opt(RE_SUFFIX),
                  Opt(RE_PIP_REV)>>),
            NoDefaults, TRUE, 0),
       Rule("pip-scp-url",
            \* re.VERBOSE drops the newline that ends the RE_SCP fragment, so
            \* the ? written after it applies to its last group, path, alone
            Cat(<<RE_PIP_SCP_SCHEME, RE_USER, RE_SCP.xs[1], RE_SCP.xs[2],
                  Opt(RE_SCP.xs[3]), Opt(RE_SUFFIX), Opt(RE_PIP_REV)>>),
            NoDefaults, TRUE, 0),
       Rule("pip-file-url",
            Cat(<<Grp("scheme", Lit(s_git_file)), Lit(s_css),
                  Grp("path", Star(Not({"@"}))), Opt(RE_PIP_REV)>>),
            NoDefaults, TRUE, 0) >>

(***************************************************************************)
(* Rules written by users of the library: the doctests' gh-rule (git.py),  *)
(* gh-prefix and gl-prefix (base.py), and two variants of them that        *)
(* collide with gh-rule on its label or on its weight.                    *)
(***************************************************************************)
GitHubRule ==
    Rule("gh-rule",
         Cat(<<Bol, Opt(Grp("scheme", Lit(s_ssh))),
               Opt(Cat(<<Grp("user", Plus(Word)), Lit(<<"@">>)>>)),
               Grp("hostname",
                   Many1(Cat(<<Lit(s_github), One(AnyChar), Lit(<<"c","o","m">>)>>))),
               Lit(<<":">>),
               Grp("path", Cat(<<One(Word), Plus(Not({":"}))>>)),
               Opt(RE_SUFFIX)>>),
         [k \in {"hostname"} |-> s_github_com], TRUE, 100)

GitHubPrefix ==
    Rule("gh-prefix",
         Cat(<<Bol, Lit(s_github), Lit(<<":">>), Grp("path", Star(AnyChar)), Eol>>),
         [k \in {"hostname", "scheme"} |->
             IF k = "hostname" THEN s_github_com ELSE s_https],
         TRUE, 0)

GitLabPrefix ==
    Rule("gl-prefix",
         Cat(<<Bol, Lit(s_gitlab), Lit(<<":">>), Grp("path", Cat(<<>>))>>),
         [k \in {"hostname", "scheme", "suffix"} |->
             CASE k = "hostname" -> s_gitlab_com
               [] k = "scheme" -> s_https
               [] k = "suffix" -> s_dotgit],
         FALSE, 0)

\* another rule under the label gh-rule: other pattern, weight and explicitness
GitHubRuleLax ==
    [DEFAULT_RULES[2] EXCEPT !.label = "gh-rule"]

\* a second rule of weight 100 that matches what gh-rule matches, with defaults
\* for a field its pattern always captures and for one it may leave unset
GitHubScp ==
    [DEFAULT_RULES[2] EXCEPT
        !.label = "gh-scp", !.weight = 100,
        !.defaults = [k \in {"hostname", "user"} |->
                         IF k = "hostname" THEN s_github_com ELSE s_git]]

\* Rule objects, by identity; a registry holds references to them
KnownRules ==
    DEFAULT_RULES \o PIP_DEFAULT_RULES \o
    <<GitHubRule, GitHubPrefix, GitLabPrefix, GitHubRuleLax, GitHubScp>>
RuleIds == 1..Len(KnownRules)
Labels == {KnownRules[r].label : r \in RuleIds}
LabelOf(r) == KnownRules[r].label
WeightOf(r) == KnownRules[r].weight

(***************************************************************************)
(* State                                                                   *)
(***************************************************************************)
Classes == {"GitBaseURL", "GitPipURL", "GitURL"}

\* every attribute name a construction can touch: the dataclass fields, the
\* group names of the patterns and the keys of the rules' defaults
AttrNames ==
    {"url", "scheme", "user", "hostname", "port", "path", "suffix", "rule", "rev",
     "separator", "username"}

NoObj == [cls |-> "none"]

VARIABLES
    rule_map,   \* rule_map[cls]: the class's registry, rule ids in insertion order
    obj,        \* the URL object the caller holds: [cls, attrs], or NoObj
    ret,        \* the last call and what it returned
    nreg,       \* register/unregister calls made
    nset        \* attribute assignments made by the caller

vars == <<rule_map, obj, ret, nreg, nset>>

MaxRegOps == 2
MaxSets == 2

(***************************************************************************)
(* MatcherRegistry                                                         *)
(***************************************************************************)
HasLabel(reg, label) == \E i \in 1..Len(reg) : LabelOf(reg[i]) = label

\* register, had it assigned unconditionally: the entry under the label is
\* replaced where it stands
register_overwrite(reg, r) ==
    IF HasLabel(reg, LabelOf(r))
    THEN [i \in 1..Len(reg) |-> IF LabelOf(reg[i]) = LabelOf(r) THEN r ELSE reg[i]]
    ELSE Append(reg, r)

\* register putting a new entry first
register_front(reg, r) ==
    IF ~HasLabel(reg, LabelOf(r)) THEN <<r>> \o reg ELSE reg

\* the dict after  if cls.label not in self._matchers: self._matchers[label] = cls
register(reg, r) ==
    IF ~HasLabel(reg, LabelOf(r)) THEN Append(reg, r) ELSE reg

\* the dict after  if label in self._matchers: del self._matchers[label]
unregister(reg, label) ==
    IF HasLabel(reg, label)
    THEN SelectSeq(reg, LAMBDA r : LabelOf(r) # label)
    ELSE reg

(***************************************************************************)
(* GitBaseURL.__post_init__                                                *)
(***************************************************************************)
\* the step of a sort that is ascending and then reversed: r goes ahead of the
\* entries of its own weight
InsertByWeight_reversed(sorted, r) ==
    LET ahead == SelectSeq(sorted, LAMBDA x : WeightOf(x) > WeightOf(r))
        behind == SelectSeq(sorted, LAMBDA x : WeightOf(x) <= WeightOf(r))
    IN  ahead \o <<r>> \o behind

\* one step of a stable sort by descending weight: r goes behind every entry
\* whose weight is at least its own
InsertByWeight(sorted, r) ==
    LET ahead == SelectSeq(sorted, LAMBDA x : WeightOf(x) >= WeightOf(r))
        behind == SelectSeq(sorted, LAMBDA x : WeightOf(x) < WeightOf(r))
    IN  ahead \o <<r>> \o behind

\* sorted(items, key=weight, reverse=True): stable, equal weights keep their order
RECURSIVE SortFrom(_, _)
SortFrom(reg, sorted) ==
    IF reg = <<>> THEN sorted
    ELSE SortFrom(Tail(reg), InsertByWeight(sorted, Head(reg)))

\* the rules taken in registry order, without the sort
sorted_maps_unsorted(reg) == reg

sorted_maps(reg) == SortFrom(reg, <<>>)

\* the first rule of rules whose pattern matches url at its start: <<r>>, or <<>>
RECURSIVE FirstMatch(_, _)
FirstMatch(rules, url) ==
    IF rules = <<>> THEN <<>>
    ELSE IF re_match(KnownRules[Head(rules)].pattern, url) # <<>>
         THEN <<Head(rules)>>
         ELSE FirstMatch(Tail(rules), url)

\* the attributes of a fresh dataclass instance built with url alone
NewAttrs(url) == [a \in AttrNames |-> IF a = "url" THEN Some(url) ELSE None]

\* for k, v in groups.items(): if v is not None: setattr(self, k, v)
SetGroups(attrs, groups) ==
    [a \in AttrNames |->
        IF a \in DOMAIN groups /\ groups[a] # None THEN groups[a] ELSE attrs[a]]

\* the defaults loop without its  is None  test
SetDefaults_always(attrs, defaults) ==
    [a \in AttrNames |->
        IF a \in DOMAIN defaults THEN Some(defaults[a]) ELSE attrs[a]]

\* for k in rule.defaults: if getattr(self, k, None) is None: setattr(...)
SetDefaults(attrs, defaults) ==
    [a \in AttrNames |->
        IF a \in DOMAIN defaults /\ attrs[a] = None THEN Some(defaults[a])
        ELSE attrs[a]]

\* the loop without its break: every matching rule is applied in turn
RECURSIVE ApplyAll(_, _, _)
ApplyAll(rules, url, attrs) ==
    IF rules = <<>> THEN attrs
    ELSE LET rule == KnownRules[Head(rules)]
             m == re_match(rule.pattern, url)
         IN  IF m = <<>> THEN ApplyAll(Tail(rules), url, attrs)
             ELSE ApplyAll(Tail(rules), url,
                           SetDefaults(SetGroups([attrs EXCEPT
                                                    !["rule"] = Some(rule.label)],
                                                 m[1].groups),
                                       rule.defaults))

post_init_no_break(reg, url) == ApplyAll(sorted_maps(reg), url, NewAttrs(url))

post_init(reg, url) ==
    LET hit == FirstMatch(sorted_maps(reg), url)
    IN  IF hit = <<>> THEN NewAttrs(url)
        ELSE LET rule == KnownRules[hit[1]]
                 groups == re_match(rule.pattern, url)[1].groups
                 labelled == [NewAttrs(url) EXCEPT !["rule"] = Some(rule.label)]
             IN  SetDefaults(SetGroups(labelled, groups), rule.defaults)

(***************************************************************************)
(* is_valid and to_url                                                     *)
(***************************************************************************)
Explicitness == {"None", "True", "False"}

\* is_valid without its  is not None  test: no filter acts as is_explicit=False
is_valid_unfiltered_as_false(reg, url, is_explicit) ==
    \E i \in 1..Len(reg) :
        /\ KnownRules[reg[i]].is_explicit = (is_explicit = "True")
        /\ re_search(KnownRules[reg[i]].pattern, url)

\* is_valid testing  if is_explicit:  where the code tests  is not None:
\* is_explicit=False acts as no filter
is_valid_truthy_filter(reg, url, is_explicit) ==
    IF is_explicit = "True"
    THEN \E i \in 1..Len(reg) :
            /\ KnownRules[reg[i]].is_explicit
            /\ re_search(KnownRules[reg[i]].pattern, url)
    ELSE \E i \in 1..Len(reg) : re_search(KnownRules[reg[i]].pattern, url)

is_valid(reg, url, is_explicit) ==
    IF is_explicit # "None"
    THEN \E i \in 1..Len(reg) :
            /\ KnownRules[reg[i]].is_explicit = (is_explicit = "True")
            /\ re_search(KnownRules[reg[i]].pattern, url)
    ELSE \E i \in 1..Len(reg) : re_search(KnownRules[reg[i]].pattern, url)

\* truthiness of an Optional[str]
Truthy(o) == o # None /\ Val(o) # <<>>

\* "".join(part for part in parts if isinstance(part, str))
RECURSIVE Join(_)
Join(parts) ==
    IF parts = <<>> THEN <<>>
    ELSE (IF Head(parts) = None THEN <<>> ELSE Val(Head(parts))) \o Join(Tail(parts))

\* to_url with the scp shape joined by "/" as the scheme shape is
GitBaseURL_to_url_slash(attrs) ==
    LET parts ==
            IF attrs["scheme"] # None
            THEN <<attrs["scheme"], Some(s_css), attrs["hostname"],
                   Some(<<"/">>), attrs["path"]>>
            ELSE <<IF Truthy(attrs["user"]) THEN attrs["user"] ELSE Some(s_git),
                   Some(<<"@">>), attrs["hostname"], Some(<<"/">>), attrs["path"]>>
        all == IF Truthy(attrs["suffix"]) THEN Append(parts, attrs["suffix"])
               ELSE parts
    IN  Join(all)

GitBaseURL_to_url(attrs) ==
    LET parts ==
            IF attrs["scheme"] # None
            THEN <<attrs["scheme"], Some(s_css), attrs["hostname"],
                   Some(<<"/">>), attrs["path"]>>
            ELSE <<IF Truthy(attrs["user"]) THEN attrs["user"] ELSE Some(s_git),
                   Some(<<"@">>), attrs["hostname"], Some(<<":">>), attrs["path"]>>
        all == IF Truthy(attrs["suffix"]) THEN Append(parts, attrs["suffix"])
               ELSE parts
    IN  Join(all)

\* to_url testing  self.rev is not None  where the code tests  self.rev
GitPipURL_to_url_not_none(attrs) ==
    LET url == GitBaseURL_to_url(attrs)
    IN  IF attrs["rev"] # None THEN url \o <<"@">> \o Val(attrs["rev"]) ELSE url

GitPipURL_to_url(attrs) ==
    LET url == GitBaseURL_to_url(attrs)
    IN  IF Truthy(attrs["rev"]) THEN url \o <<"@">> \o Val(attrs["rev"]) ELSE url

\* GitURL.to_url is super().to_url(), GitPipURL's by the MRO
to_url(cls, attrs) ==
    IF cls = "GitBaseURL" THEN GitBaseURL_to_url(attrs) ELSE GitPipURL_to_url(attrs)

(***************************************************************************)
(* Inputs                                                                  *)
(***************************************************************************)
s_org_repo == <<"o","r","g","/","r","e","p","o">>
s_h_io == <<"h",".","i","o">>

url_https == s_https \o s_css \o s_github_com \o <<"/">> \o s_org_repo \o s_dotgit
url_scp == s_git \o <<"@">> \o s_github_com \o <<":">> \o s_org_repo \o s_dotgit
url_notaurl == <<"n","o","t","a","u","r","l">>
url_prefix == s_github \o <<":">> \o s_org_repo
url_pip_scp ==
    s_git_ssh \o s_css \o s_git \o <<"@">> \o s_github_com \o <<":">> \o s_org_repo
    \o s_dotgit
url_pip_rev ==
    s_git_https \o s_css \o s_github_com \o <<"/">> \o s_org_repo \o s_dotgit
    \o <<"@","v","1",".","2",".","3">>
url_port ==
    s_git_ssh \o s_css \o s_git \o <<"@">> \o s_h_io \o <<":","7","9","9","9","/">>
    \o <<"P","R","O","J","/","r","e","p","o">> \o s_dotgit
url_bigport == s_https \o s_css \o s_h_io \o <<":","9","9","9","9","9","/","a">>
url_sshserver == s_ssh \o <<"s","e","r","v","e","r",":","r","e","p","o">>
url_dotted ==
    s_git \o <<"@">> \o s_h_io \o <<":","o","r","g","/","r","e",".","p","o">> \o s_dotgit
url_gitlab == s_gitlab \o <<":">> \o s_org_repo
url_emptyrev == s_git_https \o s_css \o s_h_io \o <<"/","a","@">>
url_trailing == s_https \o s_css \o s_h_io \o <<"/","a">> \o s_dotgit \o <<"@","v","1">>

Urls ==
    {url_https, url_scp, url_notaurl, url_prefix, url_pip_scp, url_pip_rev,
     url_port, url_bigport, url_sshserver, url_dotted, url_gitlab, url_emptyrev,
     url_trailing}

(***************************************************************************)
(* Actions                                                                 *)
(***************************************************************************)
Init ==
    /\ rule_map = [c \in Classes |->
                      CASE c = "GitBaseURL" -> <<1, 2>>
                        [] c = "GitPipURL" -> <<3, 4, 5>>
                        [] c = "GitURL" -> <<1, 2, 3, 4, 5>>]
    /\ obj = NoObj
    /\ ret = [op |-> "none"]
    /\ nreg = 0
    /\ nset = 0

\* register on one dict that the three classes share
Register_shared(cls, r) ==
    /\ nreg < MaxRegOps
    /\ rule_map' = [c \in Classes |-> register(rule_map[c], r)]
    /\ ret' = [op |-> "register", cls |-> cls, rule |-> r]
    /\ nreg' = nreg + 1
    /\ UNCHANGED <<obj, nset>>

\* cls.rule_map.register(KnownRules[r])
Register(cls, r) ==
    /\ nreg < MaxRegOps
    /\ rule_map' = [rule_map EXCEPT ![cls] = register(rule_map[cls], r)]
    /\ ret' = [op |-> "register", cls |-> cls, rule |-> r]
    /\ nreg' = nreg + 1
    /\ UNCHANGED <<obj, nset>>

\* cls.rule_map.unregister(label)
Unregister(cls, label) ==
    /\ nreg < MaxRegOps
    /\ rule_map' = [rule_map EXCEPT ![cls] = unregister(rule_map[cls], label)]
    /\ ret' = [op |-> "unregister", cls |-> cls, label |-> label]
    /\ nreg' = nreg + 1
    /\ UNCHANGED <<obj, nset>>

\* a construction that resolves against a copy of the registry taken when the
\* class was defined
Construct_snapshot(cls, url) ==
    /\ obj' = [cls |-> cls,
               attrs |-> post_init(CASE cls = "GitBaseURL" -> <<1, 2>>
                                     [] cls = "GitPipURL" -> <<3, 4, 5>>
                                     [] cls = "GitURL" -> <<1, 2, 3, 4, 5>>, url)]
    /\ ret' = [op |-> "construct", cls |-> cls, url |-> url, outcome |-> "returned"]
    /\ nset' = 0
    /\ UNCHANGED <<rule_map, nreg>>

\* obj = cls(url=url): the dataclass __init__, then __post_init__; it returns
\* normally whether or not a rule matched
Construct(cls, url) ==
    /\ obj' = [cls |-> cls, attrs |-> post_init(rule_map[cls], url)]
    /\ ret' = [op |-> "construct", cls |-> cls, url |-> url, outcome |-> "returned"]
    /\ nset' = 0
    /\ UNCHANGED <<rule_map, nreg>>

\* cls.is_valid(url, is_explicit)
IsValid(cls, url, is_explicit) ==
    /\ ret' = [op |-> "is_valid", cls |-> cls, url |-> url,
               is_explicit |-> is_explicit,
               value |-> is_valid(rule_map[cls], url, is_explicit)]
    /\ UNCHANGED <<rule_map, obj, nreg, nset>>

\* obj.to_url()
ToUrl ==
    /\ obj # NoObj
    /\ ret' = [op |-> "to_url", outcome |-> "returned",
               value |-> to_url(obj.cls, obj.attrs)]
    /\ UNCHANGED <<rule_map, obj, nreg, nset>>

\* obj.field = value, by the caller
SetAttr(field, value) ==
    /\ obj # NoObj
    /\ nset < MaxSets
    /\ obj' = [obj EXCEPT !.attrs[field] = value]
    /\ ret' = [op |-> "setattr", field |-> field]
    /\ nset' = nset + 1
    /\ UNCHANGED <<rule_map, nreg>>

(***************************************************************************)
(* Spec: registry and resolution.  Rules of GitURL's registry come and go  *)
(* and URLs are parsed under whatever the registry holds at that moment.   *)
(***************************************************************************)
RegRules == {2, 6, 7, 9, 10}
RegLabels == {"core-git-scp", "gh-rule", "gh-prefix"}

url_ghdash ==
    s_git \o <<"@">> \o s_github \o <<"-","c","o","m",":">> \o s_org_repo \o s_dotgit

ParsedUrls ==
    {url_https, url_scp, url_notaurl, url_prefix, url_ghdash, url_pip_rev}

Next ==
    \/ \E r \in RegRules : Register("GitURL", r)
    \/ \E l \in RegLabels : Unregister("GitURL", l)
    \/ \E u \in ParsedUrls : Construct("GitURL", u)

Spec == Init /\ [][Next]_vars

(***************************************************************************)
(* SpecValid: registry and validation.                                     *)
(***************************************************************************)
ValidUrls == {url_https, url_scp, url_notaurl, url_prefix, url_pip_scp}

NextValid ==
    \/ \E r \in RegRules : Register("GitURL", r)
    \/ \E l \in RegLabels : Unregister("GitURL", l)
    \/ \E u \in ValidUrls, e \in Explicitness : IsValid("GitURL", u, e)

SpecValid == Init /\ [][NextValid]_vars

(***************************************************************************)
(* SpecUrl: parsing and writing back under the built-in registries, with   *)
(* the caller re-targeting the object in between.                          *)
(***************************************************************************)
SetValues ==
    [scheme |-> {None, Some(s_https)},
     user |-> {None, Some(<<>>), Some(<<"m","e">>)},
     hostname |-> {None, Some(s_gitlab_com)},
     path |-> {None, Some(<<"v","c","s">>)},
     suffix |-> {None, Some(<<>>), Some(s_dotgit)},
     rev |-> {None, Some(<<>>), Some(<<"v","2">>)}]

\* one object per run: it is built, then re-targeted and written back
NextUrl ==
    \/ \E c \in Classes, u \in Urls : obj = NoObj /\ Construct(c, u)
    \/ \E f \in DOMAIN SetValues : \E v \in SetValues[f] : SetAttr(f, v)
    \/ ToUrl

SpecUrl == Init /\ [][NextUrl]_vars

(***************************************************************************)
(* SpecFlavors: the three classes side by side.  Rules come and go in each *)
(* class's registry while URLs are parsed and validated by each class.     *)
(***************************************************************************)
FlavorRules == {6, 9}
FlavorLabels == {"gh-rule"}

\* git@github.com:a/b
url_gh_ab == s_git \o <<"@">> \o s_github_com \o <<":","a","/","b">>
FlavorUrls == {url_gh_ab}

NextFlavors ==
    \/ \E c \in Classes, r \in FlavorRules : Register(c, r)
    \/ \E c \in Classes, l \in FlavorLabels : Unregister(c, l)
    \/ \E c \in Classes, u \in FlavorUrls : Construct(c, u)
    \/ \E c \in Classes, u \in FlavorUrls, e \in Explicitness : IsValid(c, u, e)

SpecFlavors == Init /\ [][NextFlavors]_vars

(***************************************************************************)
(* SpecCompose: a class whose registry is seeded from rule sets, as        *)
(* GitURL's is from DEFAULT_RULES and PIP_DEFAULT_RULES, in every order    *)
(* and grouping of the sets; URLs are then parsed and validated by it.     *)
(***************************************************************************)
\* d[m.label] = m: a new key goes last, a present key keeps its place
dict_setitem(reg, r) ==
    IF HasLabel(reg, LabelOf(r))
    THEN [i \in 1..Len(reg) |-> IF LabelOf(reg[i]) = LabelOf(r) THEN r ELSE reg[i]]
    ELSE Append(reg, r)

\* the dict reg after  for m in rules: reg[m.label] = m
RECURSIVE DictFrom(_, _)
DictFrom(rules, reg) ==
    IF rules = <<>> THEN reg
    ELSE DictFrom(Tail(rules), dict_setitem(reg, Head(rules)))

\* RuleMap(_rule_map={m.label: m for m in rules})
rule_map_of(rules) == DictFrom(rules, <<>>)

\* DEFAULT_RULES, PIP_DEFAULT_RULES and the rules of the doctests
RuleSets == << <<1, 2>>, <<3, 4, 5>>, <<6, 7>> >>

\* two or three of the sets, in an order
SetOrders ==
    {o \in UNION {[1..n -> 1..Len(RuleSets)] : n \in 2..Len(RuleSets)} :
        \A i, j \in DOMAIN o : o[i] = o[j] => i = j}

\* [*A, *B, *C]
RECURSIVE Unpack(_)
Unpack(o) == IF o = <<>> THEN <<>> ELSE RuleSets[Head(o)] \o Unpack(Tail(o))

\* the registry of the leading sets, then the last set added to it
LeftGrouped(o) ==
    DictFrom(RuleSets[o[Len(o)]], rule_map_of(Unpack(SubSeq(o, 1, Len(o) - 1))))
\* the registry of the first set, then the rules of the registry of the others
RightGrouped(o) ==
    DictFrom(rule_map_of(Unpack(Tail(o))), rule_map_of(RuleSets[o[1]]))

Compositions ==
    {rule_map_of(Unpack(o)) : o \in SetOrders}
    \cup {LeftGrouped(o) : o \in SetOrders} \cup {RightGrouped(o) : o \in SetOrders}

ComposeUrls == {url_https, url_scp, url_notaurl, url_prefix, url_pip_scp}

InitCompose ==
    /\ \E reg \in Compositions :
          rule_map = [c \in Classes |->
                        CASE c = "GitBaseURL" -> <<1, 2>>
                          [] c = "GitPipURL" -> <<3, 4, 5>>
                          [] c = "GitURL" -> reg]
    /\ obj = NoObj
    /\ ret = [op |-> "none"]
    /\ nreg = 0
    /\ nset = 0

NextCompose ==
    \/ \E u \in ComposeUrls : Construct("GitURL", u)
    \/ \E u \in ComposeUrls, e \in Explicitness : IsValid("GitURL", u, e)

SpecCompose == InitCompose /\ [][NextCompose]_vars

(***************************************************************************)
(* Properties                                                              *)
(***************************************************************************)
Matches(r, url) == re_match(KnownRules[r].pattern, url) # <<>>
MatchingAt(reg, url) == {i \in 1..Len(reg) : Matches(reg[i], url)}
LabelsUnique(reg) ==
    \A i, j \in 1..Len(reg) : LabelOf(reg[i]) = LabelOf(reg[j]) => i = j
\* the rule a constructed object names in its rule attribute
RuleNamed(reg, label) ==
    KnownRules[CHOOSE r \in {reg[i] : i \in 1..Len(reg)} : LabelOf(r) = label]

\* C1: a construction sets rule to the matching rule of highest weight, and
\* among matching rules of that highest weight to the one registered first.
C1_HighestWeightThenEarliest ==
    ret.op = "construct" =>
        LET reg == rule_map[ret.cls]
            M == MatchingAt(reg, ret.url)
        IN  M # {} =>
              \E i \in M :
                /\ obj.attrs["rule"] = Some(LabelOf(reg[i]))
                /\ \A j \in M :
                      \/ WeightOf(reg[j]) < WeightOf(reg[i])
                      \/ WeightOf(reg[j]) = WeightOf(reg[i]) /\ i <= j

\* two matching rules share the highest weight and a matching rule of lower
\* weight stands before both in the registry
C1_Witness ==
    /\ ret.op = "construct"
    /\ LET reg == rule_map[ret.cls]
           M == MatchingAt(reg, ret.url)
       IN  \E k, i, j \in M :
             /\ k < i /\ i < j
             /\ WeightOf(reg[k]) < WeightOf(reg[i])
             /\ WeightOf(reg[i]) = WeightOf(reg[j])
             /\ obj.attrs["rule"] = Some(LabelOf(reg[i]))

\* C2: labels are unique in every registry; register changes nothing when the
\* rule's label is present, unregister changes nothing when the label is absent.
C2_UniqueLabelsAndNoOps ==
    /\ [](\A c \in Classes : LabelsUnique(rule_map[c]))
    /\ [][/\ ret'.op = "register" /\ HasLabel(rule_map[ret'.cls], LabelOf(ret'.rule))
             => rule_map' = rule_map
          /\ ret'.op = "unregister" /\ ~HasLabel(rule_map[ret'.cls], ret'.label)
             => rule_map' = rule_map]_vars

\* a second, different rule was registered under gh-rule and the first is kept
C2_Witness ==
    /\ ret.op = "register"
    /\ ret.rule = 9
    /\ \E i \in 1..Len(rule_map[ret.cls]) : rule_map[ret.cls][i] = 6

\* C3: constructing from a string that no rule matches fails with NoMatch.
C3_NoMatchFails ==
    (ret.op = "construct" /\ MatchingAt(rule_map[ret.cls], ret.url) = {})
        => ret.outcome = "NoMatch"

\* C4: after a construction every group the matched rule captured holds the
\* captured value, and every key of its defaults that no capture filled holds
\* the default.
C4_CapturesThenDefaults ==
    (ret.op = "construct" /\ obj.attrs["rule"] # None) =>
        LET rule == RuleNamed(rule_map[ret.cls], Val(obj.attrs["rule"]))
            groups == re_match(rule.pattern, ret.url)[1].groups
        IN  /\ \A k \in GroupNames :
                  groups[k] # None => obj.attrs[k] = groups[k]
            /\ \A k \in DOMAIN rule.defaults :
                  (k \notin GroupNames \/ groups[k] = None)
                      => obj.attrs[k] = Some(rule.defaults[k])

\* gh-scp matched github:org/repo: the captured hostname stands although the
\* rule has a default for it, and the default filled the user it did not capture
C4_Witness ==
    /\ ret.op = "construct"
    /\ ret.url = url_prefix
    /\ obj.attrs["rule"] = Some("gh-scp")
    /\ obj.attrs["hostname"] = Some(s_github)
    /\ obj.attrs["user"] = Some(s_git)

\* C5: a string valid with is_explicit=True is valid with no filter.
C5_ExplicitImpliesValid ==
    (ret.op = "is_valid" /\ ret.is_explicit = "True" /\ ret.value)
        => is_valid(rule_map[ret.cls], ret.url, "None")

\* is_valid(is_explicit=True) returned True, and in the same registry another
\* string is valid without the filter only
C5_Witness ==
    /\ ret.op = "is_valid"
    /\ ret.is_explicit = "True"
    /\ ret.value
    /\ \E u \in ValidUrls :
          /\ is_valid(rule_map[ret.cls], u, "None")
          /\ ~is_valid(rule_map[ret.cls], u, "True")

\* a string of the form user@hostname:path, the path with or without .git
ScpShape ==
    Cat(<<Bol, Plus(Not({"/", ":", "@"})), Lit(<<"@">>), Plus(Not({"/", ":", "@"})),
          Lit(<<":">>), Plus(Not({":", "@"})), Eol>>)
IsScpStyle(s) == re_match(ScpShape, s) # <<>>

\* C6: to_url() of an unmutated object that a rule matched is a string that
\* is_valid accepts under the same registry, and is the input itself when the
\* input is of the form user@hostname:path.
C6_RoundTrip ==
    (ret.op = "to_url" /\ nset = 0 /\ obj.attrs["rule"] # None) =>
        /\ is_valid(rule_map[obj.cls], ret.value, "None")
        /\ IsScpStyle(Val(obj.attrs["url"])) => ret.value = Val(obj.attrs["url"])

OrEmpty(o) == IF o = None THEN <<>> ELSE Val(o)
PipClasses == {"GitPipURL", "GitURL"}

\* the two shapes as the claim words them
ClaimedShape(attrs) ==
    IF attrs["scheme"] # None
    THEN Val(attrs["scheme"]) \o s_css \o Val(attrs["hostname"]) \o <<"/">>
         \o Val(attrs["path"]) \o OrEmpty(attrs["suffix"])
    ELSE (IF attrs["user"] # None THEN Val(attrs["user"]) ELSE s_git) \o <<"@">>
         \o Val(attrs["hostname"]) \o <<":">> \o Val(attrs["path"])
         \o OrEmpty(attrs["suffix"])

\* the shapes with an empty user read as an unset one, and with the rev that
\* the serializer of GitPipURL and GitURL adds
CurrentShape(cls, attrs) ==
    LET base == ClaimedShape([attrs EXCEPT
                    !["user"] = IF attrs["user"] = Some(<<>>) THEN None ELSE @])
    IN  IF cls \in PipClasses /\ attrs["rev"] # None /\ attrs["rev"] # Some(<<>>)
        THEN base \o <<"@">> \o Val(attrs["rev"])
        ELSE base

\* C7 as stated: with hostname and path set and rev as the construction left
\* it, to_url() returns scheme://hostname/path + suffix when scheme is set,
\* else (user, or git when user is unset)@hostname:path + suffix.
C7_ShapeAsClaimed ==
    (/\ ret.op = "to_url"
     /\ obj.attrs["hostname"] # None /\ obj.attrs["path"] # None
     /\ obj.attrs["rev"] = post_init(rule_map[obj.cls], Val(obj.attrs["url"]))["rev"])
        => ret.value = ClaimedShape(obj.attrs)

\* C7, amended: with hostname and path set, every to_url() returns the shape
\* that the values current at the call give: scheme://hostname/path + suffix
\* when scheme is set, else (user, or git when user is unset or empty)
\* @hostname:path + suffix; GitPipURL and GitURL add @rev when rev is set and
\* not empty.
C7_ShapeFromCurrentFields ==
    (ret.op = "to_url" /\ obj.attrs["hostname"] # None /\ obj.attrs["path"] # None)
        => ret.value = CurrentShape(obj.cls, obj.attrs)

\* the caller gave an scp-style object a scheme and another hostname, and the
\* next to_url() wrote the scheme shape with the new hostname
C7_Witness ==
    /\ ret.op = "to_url"
    /\ obj.attrs["url"] = Some(url_scp)
    /\ obj.attrs["scheme"] = Some(s_https)
    /\ obj.attrs["hostname"] = Some(s_gitlab_com)
    /\ ret.value = s_https \o s_css \o s_gitlab_com \o <<"/">> \o s_org_repo \o s_dotgit

\* C8: to_url() with hostname or path unset fails with SerializationError.
C8_MissingPartFails ==
    (ret.op = "to_url" /\ (obj.attrs["hostname"] = None \/ obj.attrs["path"] = None))
        => ret.outcome = "SerializationError"

\* C9 as stated: the serializer of GitPipURL and GitURL returns the base
\* string when rev is unset and the base string + @ + rev when rev is set.
C9_RevWheneverSet ==
    (ret.op = "to_url" /\ obj.cls \in PipClasses) =>
        ret.value = GitBaseURL_to_url(obj.attrs)
                    \o (IF obj.attrs["rev"] # None
                        THEN <<"@">> \o Val(obj.attrs["rev"]) ELSE <<>>)

SuffixPart(attrs) == IF Truthy(attrs["suffix"]) THEN Val(attrs["suffix"]) ELSE <<>>
RevPart(cls, attrs) ==
    IF cls \in PipClasses /\ Truthy(attrs["rev"])
    THEN <<"@">> \o Val(attrs["rev"]) ELSE <<>>

\* C9, amended: the serializer of GitPipURL and GitURL returns the base string
\* when rev is unset or empty and the base string + @ + rev otherwise; and every
\* to_url() is what it returns with suffix and rev cleared, followed by the
\* suffix the object has now and then by that rev part.
C9_RevAndSuffixOnlyWhenPresent ==
    ret.op = "to_url" =>
        /\ obj.cls \in PipClasses =>
              ret.value = GitBaseURL_to_url(obj.attrs) \o RevPart(obj.cls, obj.attrs)
        /\ ret.value =
              to_url(obj.cls, [obj.attrs EXCEPT !["suffix"] = None, !["rev"] = None])
              \o SuffixPart(obj.attrs) \o RevPart(obj.cls, obj.attrs)

\* a pip URL parsed with suffix and rev, the suffix then cleared by the caller:
\* the rev follows the path at once
C9_Witness ==
    /\ ret.op = "to_url"
    /\ obj.cls = "GitPipURL"
    /\ obj.attrs["url"] = Some(url_pip_rev)
    /\ obj.attrs["suffix"] = None
    /\ ret.value = s_git_https \o s_css \o s_github_com \o <<"/">> \o s_org_repo
                   \o <<"@","v","1",".","2",".","3">>

DigitValue(c) ==
    CASE c = "0" -> 0 [] c = "1" -> 1 [] c = "2" -> 2 [] c = "3" -> 3 [] c = "4" -> 4
      [] c = "5" -> 5 [] c = "6" -> 6 [] c = "7" -> 7 [] c = "8" -> 8 [] c = "9" -> 9
RECURSIVE Decimal(_)
Decimal(s) ==
    IF s = <<>> THEN 0 ELSE 10 * Decimal(SubSeq(s, 1, Len(s) - 1)) + DigitValue(s[Len(s)])

\* C10: the port of a constructed object is unset or a number in 0..65535.
C10_PortInRange ==
    (ret.op = "construct" /\ obj.attrs["port"] # None)
        => Decimal(Val(obj.attrs["port"])) \in 0..65535

\* re.fullmatch(pattern, s) is not None: a match that ends where s ends
re_fullmatch(pattern, s) == Run(<<pattern, Eol>>, s, 1, NoGroups) # <<>>

\* C11: the rule a construction applied matches the whole input string, from
\* its first to its last character.
C11_WholeInputMatched ==
    (ret.op = "construct" /\ obj.attrs["rule"] # None) =>
        re_fullmatch(RuleNamed(rule_map[ret.cls], Val(obj.attrs["rule"])).pattern,
                     ret.url)

\* the rule object r is in the registry
Holds(reg, r) == \E i \in 1..Len(reg) : reg[i] = r
\* r weighs more than every other rule of the registry
Outweighs(reg, r) ==
    \A i \in 1..Len(reg) : reg[i] # r => WeightOf(reg[i]) < WeightOf(r)

\* C12 as stated: a construction that follows the registration of a matching
\* rule whose weight is higher than all others yields that rule's label.
C12_RegisteredRuleWins ==
    [][(/\ ret.op = "register" /\ ret'.op = "construct" /\ ret'.cls = ret.cls
        /\ Matches(ret.rule, ret'.url)
        /\ Outweighs(rule_map[ret.cls], ret.rule))
          => obj'.attrs["rule"] = Some(LabelOf(ret.rule))]_vars

\* C12, amended: every construction and is_valid call resolves against the
\* registry as it is at the call; a construction that follows a registration
\* which left the rule in the registry, the rule matching and outweighing all
\* others, yields that rule's label; unregistering a rule whose label was
\* absent before its registration brings back what a construction gave
\* before; and register and unregister leave the object constructed earlier
\* as it was.
C12_MutationsTakeEffect ==
    /\ [](/\ ret.op = "construct" =>
               obj.attrs = post_init(rule_map[ret.cls], ret.url)
          /\ ret.op = "is_valid" =>
               ret.value = is_valid(rule_map[ret.cls], ret.url, ret.is_explicit))
    /\ [][/\ (/\ ret.op = "register" /\ ret'.op = "construct" /\ ret'.cls = ret.cls
              /\ Holds(rule_map[ret.cls], ret.rule)
              /\ Matches(ret.rule, ret'.url)
              /\ Outweighs(rule_map[ret.cls], ret.rule))
                => obj'.attrs["rule"] = Some(LabelOf(ret.rule))
          /\ (ret'.op = "register"
               /\ ~HasLabel(rule_map[ret'.cls], LabelOf(ret'.rule))) =>
                LET before == rule_map[ret'.cls]
                    after == unregister(rule_map'[ret'.cls], LabelOf(ret'.rule))
                IN  \A u \in FlavorUrls : post_init(after, u) = post_init(before, u)
          /\ ret'.op \in {"register", "unregister"} => obj' = obj]_vars

\* gh-rule was registered on GitURL and the construction that followed chose
\* it over core-git-scp, which stands earlier in the registry
C12_Witness ==
    /\ ret.op = "construct"
    /\ ret.cls = "GitURL"
    /\ ret.url = url_gh_ab
    /\ nreg = 1
    /\ Holds(rule_map["GitURL"], 6)
    /\ obj.attrs["rule"] = Some("gh-rule")

IdSet(reg) == {reg[i] : i \in 1..Len(reg)}
\* the registries composed of the rule sets that reg is composed of
SameSets(reg) == {other \in Compositions : IdSet(other) = IdSet(reg)}
\* the matching rules of reg that no matching rule of reg outweighs
TopMatching(reg, url) ==
    {r \in IdSet(reg) :
        /\ Matches(r, url)
        /\ \A q \in IdSet(reg) : Matches(q, url) => WeightOf(q) <= WeightOf(r)}
\* the rules of rs are all of one rule set
OfOneSet(rs) ==
    \E k \in 1..Len(RuleSets) : rs \subseteq IdSet(RuleSets[k])

\* C13 as stated: registries composed of the same rule sets, in any order and
\* grouping, give the same is_valid result and the same constructed object
\* for every input.
C13_SameInAnyOrder ==
    /\ ret.op = "construct" =>
          \A other \in SameSets(rule_map[ret.cls]) :
              post_init(other, ret.url) = obj.attrs
    /\ ret.op = "is_valid" =>
          \A other \in SameSets(rule_map[ret.cls]) :
              is_valid(other, ret.url, ret.is_explicit) = ret.value

\* C13, amended: registries composed of the same rule sets, in any order and
\* grouping, give the same is_valid result for every input, and the same
\* constructed object for every input whose matching rules of highest weight
\* are all of one rule set.
C13_SameUnlessTiedAcrossSets ==
    /\ (ret.op = "construct"
         /\ OfOneSet(TopMatching(rule_map[ret.cls], ret.url))) =>
          \A other \in SameSets(rule_map[ret.cls]) :
              post_init(other, ret.url) = obj.attrs
    /\ ret.op = "is_valid" =>
          \A other \in SameSets(rule_map[ret.cls]) :
              is_valid(other, ret.url, ret.is_explicit) = ret.value

\* the three sets composed last to first: gh-rule stands first, the weightless
\* core-git-scp last, and the URL both match is parsed by gh-rule as in every
\* other order
C13_Witness ==
    /\ ret.op = "construct"
    /\ rule_map[ret.cls] = <<6, 7, 3, 4, 5, 1, 2>>
    /\ ret.url = url_scp
    /\ obj.attrs["rule"] = Some("gh-rule")
    /\ Matches(2, ret.url)

\* the fields a URL object declares besides url and rule
DeclaredFields == {"scheme", "user", "hostname", "port", "path", "suffix", "rev"}

\* C14: a construction sets no attribute but the declared fields, and leaves
\* url the input string and rule the label of the rule that matched.
C14_OnlyDeclaredFields ==
    ret.op = "construct" =>
        /\ \A a \in AttrNames \ (DeclaredFields \cup {"url", "rule"}) :
              obj.attrs[a] = None
        /\ obj.attrs["url"] = Some(ret.url)
        /\ LET hit == FirstMatch(sorted_maps(rule_map[ret.cls]), ret.url)
           IN  obj.attrs["rule"] = IF hit = <<>> THEN None ELSE Some(LabelOf(hit[1]))

\* reg back to front
Reversed(reg) == [i \in 1..Len(reg) |-> reg[Len(reg) + 1 - i]]

\* C15: is_valid(s, is_explicit=e) is true exactly when the pattern of some
\* rule of the registry whose is_explicit flag is e is found in s, and
\* is_valid(s) exactly when the pattern of some rule of the registry is; the
\* registry in another order gives the same; the call leaves every registry
\* and the object constructed earlier as they were.
C15_ValidIffSomeRuleMatches ==
    /\ [](ret.op = "is_valid" =>
            LET reg == rule_map[ret.cls]
                candidates ==
                    IF ret.is_explicit = "None" THEN IdSet(reg)
                    ELSE {r \in IdSet(reg) :
                            KnownRules[r].is_explicit = (ret.is_explicit = "True")}
            IN  /\ ret.value =
                      (\E r \in candidates : re_search(KnownRules[r].pattern, ret.url))
                /\ ret.value = is_valid(Reversed(reg), ret.url, ret.is_explicit)
                /\ ret.value = is_valid(sorted_maps(reg), ret.url, ret.is_explicit))
    /\ [][ret'.op = "is_valid" => rule_map' = rule_map /\ obj' = obj]_vars

\* with an object at hand, is_valid(is_explicit=False) returned False for a
\* string that only an explicit rule, gh-rule, matches
C15_Witness ==
    /\ ret.op = "is_valid"
    /\ ret.is_explicit = "False"
    /\ ~ret.value
    /\ is_valid(rule_map[ret.cls], ret.url, "True")
    /\ obj # NoObj

\* C16: a construction applies the first matching rule of the precedence
\* order and no other: rule names it, and every other attribute that is set
\* holds what that rule captured or what its defaults give; when no rule
\* matches nothing is written.
C16_OneRuleApplied ==
    ret.op = "construct" =>
        LET hit == FirstMatch(sorted_maps(rule_map[ret.cls]), ret.url)
        IN  IF hit = <<>> THEN obj.attrs = NewAttrs(ret.url)
            ELSE LET rule == KnownRules[hit[1]]
                     groups == re_match(rule.pattern, ret.url)[1].groups
                 IN  /\ obj.attrs["url"] = Some(ret.url)
                     /\ obj.attrs["rule"] = Some(rule.label)
                     /\ \A a \in AttrNames \ {"url", "rule"} :
                           obj.attrs[a] # None =>
                             \/ a \in GroupNames /\ obj.attrs[a] = groups[a]
                             \/ /\ a \in DOMAIN rule.defaults
                                /\ obj.attrs[a] = Some(rule.defaults[a])

\* gh-rule parsed a URL that core-git-scp matches too: the suffix, separator
\* and username that core-git-scp would have given are not set
C16_Witness ==
    /\ ret.op = "construct"
    /\ ret.url = url_scp
    /\ obj.attrs["rule"] = Some("gh-rule")
    /\ Holds(rule_map[ret.cls], 2)
    /\ Matches(2, ret.url)
    /\ re_match(KnownRules[2].pattern, ret.url)[1].groups["suffix"] # None
    /\ obj.attrs["suffix"] = None
    /\ obj.attrs["separator"] = None
    /\ obj.attrs["username"] = None

\* C17: a register or unregister on one class leaves the registries of the
\* other two classes, labels and order, as they were; and what a construction
\* or an is_valid call of a class gives is what the registry of that class
\* gives, so that it is as before too.
C17_OtherRegistriesUntouched ==
    /\ [](/\ ret.op = "construct" =>
               obj.attrs = post_init(rule_map[ret.cls], ret.url)
          /\ ret.op = "is_valid" =>
               ret.value = is_valid(rule_map[ret.cls], ret.url, ret.is_explicit))
    /\ [][ret'.op \in {"register", "unregister"} =>
             \A c \in Classes \ {ret'.cls} : rule_map'[c] = rule_map[c]]_vars

\* gh-rule is registered on GitBaseURL alone, and GitURL parses the URL it
\* matches by core-git-scp as before
C17_Witness ==
    /\ ret.op = "construct"
    /\ ret.cls = "GitURL"
    /\ ret.url = url_gh_ab
    /\ Holds(rule_map["GitBaseURL"], 6)
    /\ rule_map["GitURL"] = <<1, 2, 3, 4, 5>>
    /\ rule_map["GitPipURL"] = <<3, 4, 5>>
    /\ obj.attrs["rule"] = Some("core-git-scp")

\* the entries of reg under other labels, in their order
Others(reg, label) == SelectSeq(reg, LAMBDA r : LabelOf(r) # label)

\* C18: a register under an absent label puts the rule last, and unregistering
\* that label then gives the registry of before; every register and unregister
\* keeps the other entries in their order; a rule registered right after its
\* label was unregistered stands last.
C18_RegisterUnregisterRestores ==
    [][/\ (ret'.op = "register"
            /\ ~HasLabel(rule_map[ret'.cls], LabelOf(ret'.rule))) =>
             LET after == rule_map'[ret'.cls]
             IN  /\ after # <<>> /\ after[Len(after)] = ret'.rule
                 /\ unregister(after, LabelOf(ret'.rule)) = rule_map[ret'.cls]
       /\ ret'.op = "register" =>
             Others(rule_map'[ret'.cls], LabelOf(ret'.rule))
                 = Others(rule_map[ret'.cls], LabelOf(ret'.rule))
       /\ ret'.op = "unregister" =>
             /\ Others(rule_map'[ret'.cls], ret'.label)
                   = Others(rule_map[ret'.cls], ret'.label)
             /\ ~HasLabel(rule_map'[ret'.cls], ret'.label)
       /\ (/\ ret.op = "unregister" /\ ret'.op = "register"
           /\ ret'.cls = ret.cls /\ LabelOf(ret'.rule) = ret.label) =>
             LET after == rule_map'[ret'.cls]
             IN  after # <<>> /\ after[Len(after)] = ret'.rule]_vars

\* core-git-scp was unregistered and registered again: it stands last, behind
\* the pip rules it stood ahead of
C18_Witness ==
    /\ ret.op = "register"
    /\ ret.rule = 2
    /\ rule_map["GitURL"] = <<1, 3, 4, 5, 2>>
====
